---- MODULE Spec2Model ----
(***************************************************************************)
(* A model of DCF_Models.py: calculate_dcf, sensitivity_analysis,          *)
(* reverse_dcf and reverse_dcf_sensitivity.                                *)
(*                                                                         *)
(* Numbers.  The program computes in IEEE double precision (Python float   *)
(* and numpy.float64).  A number is modelled as a record [n, d]:           *)
(*   d > 0  the exact rational n/d in lowest terms,                        *)
(*   d = 0  a non-finite double: n = 1 is +inf, n = -1 is -inf, n = 0 nan. *)
(* Finite arithmetic is exact (no rounding, no signed zero); the           *)
(* non-finite cases follow numpy.float64: x/0 is +-inf, 0/0 and inf-inf    *)
(* are nan, and every comparison with nan is false.                        *)
(***************************************************************************)
EXTENDS Integers, Sequences, FiniteSets, TLC

VARIABLES
    pc,               \* position of the running call
    base_inputs,      \* the dict the caller passes (calculate_dcf, sensitivity_analysis, reverse_dcf_sensitivity)
    given_inputs,     \* ghost: base_inputs as it was when the call began
    valuation,        \* outcome of the last calculate_dcf call
    variables,        \* sensitivity: list of variable names
    ranges,           \* sensitivity: list of perturbations (the same for each variable)
    vi,               \* sensitivity: index of the current variable
    ri,               \* sensitivity: index of the current perturbation
    base_value,       \* sensitivity_analysis: base enterprise value; reverse_dcf_sensitivity: base_growth
    base_var_value,   \* sensitivity: the analysed field's value read before the inner loop
    modified_inputs,  \* sensitivity: the dict passed to the recomputation
    var_results,      \* sensitivity: rows appended so far for the current variable
    results,          \* sensitivity: the rows of each finished variable
    query,            \* reverse_dcf: its arguments
    gi,               \* reverse_dcf: index of the next candidate of growth_rates
    closest_growth,   \* reverse_dcf: [isNone, v]
    min_difference,   \* reverse_dcf: smallest difference so far
    implied,          \* reverse_dcf: outcome of the call
    ret               \* reverse_dcf: where its caller continues

vars == <<pc, base_inputs, given_inputs, valuation, variables, ranges, vi, ri,
          base_value, base_var_value, modified_inputs, var_results, results,
          query, gi, closest_growth, min_difference, implied, ret>>

----------------------------------------------------------------------------
(* Bounds of the model *)

MaxYears == 3
MaxVars == 2
MaxRanges == 2
MaxGrid == 4

----------------------------------------------------------------------------
(* Double arithmetic *)

Abs(x) == IF x < 0 THEN -x ELSE x

Sgn(x) == IF x > 0 THEN 1 ELSE IF x < 0 THEN -1 ELSE 0

Min(a, b) == IF a < b THEN a ELSE b

RECURSIVE GCD(_, _)
GCD(a, b) == IF b = 0 THEN a ELSE GCD(b, a % b)

\* n/d with d # 0, in lowest terms with a positive denominator
Norm(n, d) ==
    LET g == GCD(Abs(n), Abs(d))
    IN  [n |-> Sgn(d) * (n \div g), d |-> Abs(d) \div g]

R(n, d) == Norm(n, d)

NaN == [n |-> 0, d |-> 0]
PInf == [n |-> 1, d |-> 0]
NInf == [n |-> -1, d |-> 0]
Zero == [n |-> 0, d |-> 1]
One == [n |-> 1, d |-> 1]

IsNaN(a) == a.d = 0 /\ a.n = 0
IsFinite(a) == a.d > 0
Inf(s) == [n |-> s, d |-> 0]

FNeg(a) == [n |-> -a.n, d |-> a.d]

FAdd(a, b) ==
    IF IsNaN(a) \/ IsNaN(b) THEN NaN
    ELSE IF a.d = 0 /\ b.d = 0 THEN (IF a.n = b.n THEN a ELSE NaN)
    ELSE IF a.d = 0 THEN a
    ELSE IF b.d = 0 THEN b
    ELSE Norm(a.n * b.d + b.n * a.d, a.d * b.d)

FSub(a, b) == FAdd(a, FNeg(b))

FMul(a, b) ==
    IF IsNaN(a) \/ IsNaN(b) THEN NaN
    ELSE IF a.d = 0 \/ b.d = 0
         THEN (IF Sgn(a.n) * Sgn(b.n) = 0 THEN NaN ELSE Inf(Sgn(a.n) * Sgn(b.n)))
    ELSE Norm(a.n * b.n, a.d * b.d)

\* numpy.float64 division: a zero divisor gives inf or nan (a warning, no exception)
FDiv(a, b) ==
    IF IsNaN(a) \/ IsNaN(b) THEN NaN
    ELSE IF b.d = 0 THEN (IF a.d = 0 THEN NaN ELSE Zero)
    ELSE IF b.n = 0 THEN (IF a.n = 0 THEN NaN ELSE Inf(Sgn(a.n)))
    ELSE IF a.d = 0 THEN Inf(Sgn(a.n) * Sgn(b.n))
    ELSE Norm(a.n * b.d, a.d * b.n)

\* a < b on doubles: false when either is nan
FLt(a, b) ==
    IF IsNaN(a) \/ IsNaN(b) THEN FALSE
    ELSE IF a.d = 0 THEN a.n < 0 /\ ~(b.d = 0 /\ b.n < 0)
    ELSE IF b.d = 0 THEN b.n > 0
    ELSE a.n * b.d < b.n * a.d

FLe(a, b) ==
    IF IsNaN(a) \/ IsNaN(b) THEN FALSE ELSE a = b \/ FLt(a, b)

FAbs(a) == [n |-> Abs(a.n), d |-> a.d]

\* base ** i for an int i >= 0
RECURSIVE FPow(_, _)
FPow(base, i) == IF i = 0 THEN One ELSE FMul(FPow(base, i - 1), base)

----------------------------------------------------------------------------
(* Python values *)

\* seq[i] for a Python list and an index i >= 0 (0-based)
At(seq, i) == seq[i + 1]

\* a Python int or float used as a count: years
PyInt(k) == [v |-> R(k, 1), int |-> TRUE]

\* a raised exception, and a returned value
Raised(e) == [status |-> e]

ListFields == {"revenue_growth_rates", "ebit_margins"}

----------------------------------------------------------------------------
(* calculate_dcf *)

\* a wraparound index instead of the clamped one
ClampIndexWrap(i, len) == i % len

\* min(i, len(seq)-1), lines 41 and 45
ClampIndex(i, len) == Min(i, len - 1)

\* revenues[i], lines 39-41
RECURSIVE Revenue(_, _)
Revenue(inp, i) ==
    LET g == inp.revenue_growth_rates
    IN  IF i = 0
        THEN FMul(inp.initial_revenue, FAdd(One, At(g, 0)))
        ELSE FMul(Revenue(inp, i - 1), FAdd(One, At(g, ClampIndex(i, Len(g)))))

\* ebit[i], lines 44-45
Ebit(inp, i) ==
    LET m == inp.ebit_margins
    IN  FMul(Revenue(inp, i), At(m, ClampIndex(i, Len(m))))

\* nopat[i], line 48
Nopat(inp, i) == FMul(Ebit(inp, i), FSub(One, inp.tax_rate))

\* the level series without its point 0
NwcNoInitial(inp, j) ==
    IF j = 0 THEN Zero ELSE FMul(Revenue(inp, j - 1), inp.nwc_percent)

\* nwc[j] for j in 0..years, lines 51-53
Nwc(inp, j) ==
    IF j = 0 THEN FMul(inp.initial_revenue, inp.nwc_percent)
    ELSE FMul(Revenue(inp, j - 1), inp.nwc_percent)

\* nwc_changes[i] = np.diff(nwc)[i], line 54
NwcChange(inp, i) == FSub(Nwc(inp, i + 1), Nwc(inp, i))

\* capex[i], line 57
Capex(inp, i) == FMul(Revenue(inp, i), inp.capex_percent)

\* fcf[i], line 60
Fcf(inp, i) == FSub(FSub(Nopat(inp, i), NwcChange(inp, i)), Capex(inp, i))

\* terminal_value, lines 63-64
TerminalValue(inp) ==
    LET Y == inp.years.v.n
        terminal_fcf == FMul(Fcf(inp, Y - 1), FAdd(One, inp.terminal_growth_rate))
    IN  FDiv(terminal_fcf, FSub(inp.discount_rate, inp.terminal_growth_rate))

\* discount_factors[i - 1] = (1 + discount_rate) ** -i, line 67
DiscountFactor(inp, i) == FDiv(One, FPow(FAdd(One, inp.discount_rate), i))

\* pv_fcf[i], line 68
PvFcf(inp, i) == FMul(Fcf(inp, i), DiscountFactor(inp, i + 1))

\* np.sum(pv_fcf[0..k-1])
RECURSIVE SumPvFcf(_, _)
SumPvFcf(inp, k) ==
    IF k = 0 THEN Zero ELSE FAdd(SumPvFcf(inp, k - 1), PvFcf(inp, k - 1))

\* enterprise_value, lines 69-72
EnterpriseValue(inp) ==
    LET Y == inp.years.v.n
    IN  FAdd(SumPvFcf(inp, Y), FMul(TerminalValue(inp), DiscountFactor(inp, Y)))

\* the summary DataFrame, lines 75-83
Summary(inp) ==
    LET Y == inp.years.v.n
    IN  [Revenue   |-> [i \in 1..Y |-> Revenue(inp, i - 1)],
         EBIT      |-> [i \in 1..Y |-> Ebit(inp, i - 1)],
         NOPAT     |-> [i \in 1..Y |-> Nopat(inp, i - 1)],
         NWCChange |-> [i \in 1..Y |-> NwcChange(inp, i - 1)],
         CAPEX     |-> [i \in 1..Y |-> Capex(inp, i - 1)],
         FCF       |-> [i \in 1..Y |-> Fcf(inp, i - 1)],
         PVofFCF   |-> [i \in 1..Y |-> PvFcf(inp, i - 1)]]

\* The exception calculate_dcf raises on inp, "ok" if none, in the order the
\* statements run: np.zeros(years) (31), revenue_growth_rates[0] and
\* revenues[0] (39), ebit_margins[min(i, len-1)] (45), the float power (67).
CalcStatus(inp) ==
    IF ~inp.years.int THEN "TypeError"
    ELSE IF inp.years.v.n < 0 THEN "ValueError"
    ELSE IF Len(inp.revenue_growth_rates) = 0 THEN "IndexError"
    ELSE IF inp.years.v.n = 0 THEN "IndexError"
    ELSE IF Len(inp.ebit_margins) = 0 THEN "IndexError"
    ELSE IF FAdd(One, inp.discount_rate) = Zero THEN "ZeroDivisionError"
    ELSE "ok"

\* calculate_dcf: the dict it returns, or the exception it raises
calculate_dcf(inp) ==
    IF CalcStatus(inp) # "ok" THEN Raised(CalcStatus(inp))
    ELSE [status           |-> "ok",
          enterprise_value |-> EnterpriseValue(inp),
          terminal_value   |-> TerminalValue(inp),
          summary          |-> Summary(inp)]

----------------------------------------------------------------------------
(* Input sets *)

None == "None"

Half == R(1, 2)
Quarter == R(1, 4)

\* years as the caller may pass it: -1 .. MaxYears
YearsSet == {PyInt(k) : k \in -1..MaxYears}

GrowthLists == {<<>>, <<Half>>, <<Zero, Half>>, <<Half, Zero, One>>}
MarginLists == {<<>>, <<Half>>, <<Quarter, Half>>}

\* keyword arguments of calculate_dcf, valid and invalid
CalcInputs ==
    [revenue_growth_rates : GrowthLists,
     ebit_margins         : MarginLists,
     tax_rate             : {Half, NaN},
     nwc_percent          : {Zero, Half},
     capex_percent        : {Zero, Quarter},
     discount_rate        : {Half, One},
     terminal_growth_rate : {Zero, Half, One},
     initial_revenue      : {R(8, 1)},
     years                : YearsSet]

\* the values of the variables a call does not use
Idle ==
    /\ variables = <<>>
    /\ ranges = <<>>
    /\ vi = 0
    /\ ri = 0
    /\ base_value = None
    /\ base_var_value = None
    /\ modified_inputs = None
    /\ var_results = <<>>
    /\ results = <<>>
    /\ query = None
    /\ gi = 0
    /\ closest_growth = [isNone |-> TRUE, v |-> Zero]
    /\ min_difference = PInf
    /\ implied = None
    /\ ret = "top"

----------------------------------------------------------------------------
(* The caller of calculate_dcf, line 103 *)

InitCalc ==
    /\ pc = "call"
    /\ base_inputs \in CalcInputs
    /\ given_inputs = base_inputs
    /\ valuation = None
    /\ Idle

CalculateDcfCall ==
    /\ pc = "call"
    /\ valuation' = calculate_dcf(base_inputs)
    /\ pc' = IF valuation'.status = "ok" THEN "returned" ELSE "raised"
    /\ UNCHANGED <<base_inputs, given_inputs, variables, ranges, vi, ri,
                   base_value, base_var_value, modified_inputs, var_results,
                   results, query, gi, closest_growth, min_difference, implied, ret>>

NextCalc == CalculateDcfCall

SpecCalc == InitCalc /\ [][NextCalc]_vars

----------------------------------------------------------------------------
(* Claims about calculate_dcf, under SpecCalc *)

Called == pc \in {"returned", "raised"}

\* the last entry reused for the years a list does not cover
Pad(seq, i) == IF i < Len(seq) THEN At(seq, i) ELSE At(seq, Len(seq) - 1)

\* the reference inputs, lines 92-101
model_inputs ==
    [revenue_growth_rates |-> <<R(15, 100), R(12, 100), R(10, 100), R(8, 100), R(6, 100)>>,
     ebit_margins         |-> <<R(25, 100), R(26, 100), R(27, 100), R(27, 100), R(28, 100)>>,
     tax_rate             |-> R(25, 100),
     nwc_percent          |-> R(12, 100),
     capex_percent        |-> R(8, 100),
     discount_rate        |-> R(10, 100),
     terminal_growth_rate |-> R(2, 100),
     initial_revenue      |-> R(1000000, 1),
     years                |-> PyInt(5)]

\* the inputs C5 calls invalid
InvalidInput(inp) ==
    \/ ~inp.years.int
    \/ inp.years.v.n < 1
    \/ Len(inp.revenue_growth_rates) = 0
    \/ Len(inp.ebit_margins) = 0
    \/ \E f \in {"tax_rate", "nwc_percent", "capex_percent", "discount_rate",
                 "terminal_growth_rate", "initial_revenue"} : ~IsFinite(inp[f])
    \/ \E i \in DOMAIN inp.revenue_growth_rates : ~IsFinite(inp.revenue_growth_rates[i])
    \/ \E i \in DOMAIN inp.ebit_margins : ~IsFinite(inp.ebit_margins[i])

\* C1 as claimed, on inputs nothing else is wrong with: whenever discount_rate
\* <= terminal_growth_rate the call raises and returns no enterprise_value or
\* terminal_value (none computed from a zero or negative denominator).
C1_DivergentRaises ==
    (/\ Called
     /\ ~InvalidInput(base_inputs)
     /\ FLe(base_inputs.discount_rate, base_inputs.terminal_growth_rate))
        => valuation.status # "ok"

\* C2: in every returned projection, year i uses revenue_growth_rates and
\* ebit_margins at their own clamped index (the last entry reused, no
\* wraparound); a list shorter than years raises nothing; a one-entry growth
\* list [g] gives revenue[0] = initial_revenue*(1+g), revenue[i] = revenue[i-1]*(1+g).
C2_ClampedIndex ==
    LET inp == base_inputs
        Y == inp.years.v.n
        g == inp.revenue_growth_rates
        m == inp.ebit_margins
        rev == valuation.summary.Revenue
        prev(i) == IF i = 0 THEN inp.initial_revenue ELSE rev[i]
    IN  /\ (Called /\ inp.years.int /\ Y >= 1 /\ Len(g) >= 1 /\ Len(m) >= 1)
              => pc = "returned"
        /\ pc = "returned" =>
              \A i \in 0..(Y - 1) :
                  /\ rev[i + 1] = FMul(prev(i), FAdd(One, Pad(g, i)))
                  /\ valuation.summary.EBIT[i + 1] = FMul(rev[i + 1], Pad(m, i))
                  /\ Len(g) = 1 => rev[i + 1] = FMul(prev(i), FAdd(One, g[1]))

\* C2's case: a two-entry growth list projected over three years
C2_Witness ==
    /\ pc = "returned"
    /\ base_inputs.years.v.n = 3
    /\ Len(base_inputs.revenue_growth_rates) = 2
    /\ Len(base_inputs.ebit_margins) = 1
    /\ valuation.summary.Revenue[3] # valuation.summary.Revenue[2]

\* C5 as claimed: on an invalid input the call raises and returns no result.
C5_InvalidRaises ==
    (Called /\ InvalidInput(base_inputs)) => valuation.status # "ok"

\* C6: in every returned projection nwc_change[i] = nwc_percent*(revenue[i] -
\* revenue[i-1]) with revenue[-1] = initial_revenue, capex[i] =
\* revenue[i]*capex_percent, nopat[i] = ebit[i]*(1 - tax_rate) and fcf[i] =
\* nopat[i] - nwc_change[i] - capex[i]; the reference inputs give
\* revenue[0] = 1,150,000 and ebit[0] = 287,500.
C6_CashFlowFormulas ==
    LET inp == base_inputs
        Y == inp.years.v.n
        sm == valuation.summary
        prev(i) == IF i = 0 THEN inp.initial_revenue ELSE sm.Revenue[i]
    IN  /\ pc = "returned" =>
              \A i \in 0..(Y - 1) :
                  /\ sm.NWCChange[i + 1] =
                        FMul(inp.nwc_percent, FSub(sm.Revenue[i + 1], prev(i)))
                  /\ sm.CAPEX[i + 1] = FMul(sm.Revenue[i + 1], inp.capex_percent)
                  /\ sm.NOPAT[i + 1] = FMul(sm.EBIT[i + 1], FSub(One, inp.tax_rate))
                  /\ sm.FCF[i + 1] =
                        FSub(FSub(sm.NOPAT[i + 1], sm.NWCChange[i + 1]), sm.CAPEX[i + 1])
        /\ Revenue(model_inputs, 0) = R(1150000, 1)
        /\ Ebit(model_inputs, 0) = R(287500, 1)

\* C6's case: a returned projection with a non-zero working-capital change
\* in its first and in a later year
C6_Witness ==
    /\ pc = "returned"
    /\ base_inputs.years.v.n >= 2
    /\ valuation.summary.NWCChange[1] # Zero
    /\ valuation.summary.NWCChange[2] # Zero
    /\ valuation.summary.CAPEX[1] # Zero
    /\ IsFinite(valuation.summary.FCF[2])

----------------------------------------------------------------------------
(* sensitivity_analysis *)

Fields ==
    {"revenue_growth_rates", "ebit_margins", "tax_rate", "nwc_percent",
     "capex_percent", "discount_rate", "terminal_growth_rate",
     "initial_revenue", "years"}

\* a perturbation: a Python float, or a Python int (as the 0 of line 289)
PyFloat(x) == [v |-> x, int |-> FALSE]
Perts == {PyFloat(R(-1, 2)), PyFloat(Zero), [v |-> Zero, int |-> TRUE]}

\* round(x) to the nearest integer, ties to even, for a finite x
RoundHalfEven(x) ==
    LET q == x.n \div x.d
        r == x.n - q * x.d
    IN  IF 2 * r < x.d THEN q
        ELSE IF 2 * r > x.d THEN q + 1
        ELSE IF q % 2 = 0 THEN q ELSE q + 1

\* f"{x:+.1%}": the sign and the tenths of a percent, or +nan%, +inf%, -inf%
FormatPct(x) ==
    IF IsNaN(x) THEN [text |-> "nan%", tenths |-> 0]
    ELSE IF x.d = 0 THEN [text |-> "inf%", tenths |-> x.n]
    ELSE [text |-> "%", tenths |-> RoundHalfEven(FMul(x, R(1000, 1)))]

\* the value times pct_change instead of (1 + pct_change)
ModifiedValueTimesPct(var, bvv, p) ==
    IF var \in ListFields
    THEN [i \in DOMAIN bvv |-> FMul(bvv[i], p.v)]
    ELSE IF var = "years"
    THEN [v |-> FMul(bvv.v, p.v), int |-> bvv.int /\ p.int]
    ELSE FMul(bvv, p.v)

\* modified_value, lines 124-129 (a list field is scaled element by element)
ModifiedValue(var, bvv, p) ==
    IF var \in ListFields
    THEN [i \in DOMAIN bvv |-> FMul(bvv[i], FAdd(One, p.v))]
    ELSE IF var = "years"
    THEN [v |-> FMul(bvv.v, FAdd(One, p.v)), int |-> bvv.int /\ p.int]
    ELSE FMul(bvv, FAdd(One, p.v))

\* the caller's dict bound to both names, the assignment made through it
DictCopySetAliased(base, var, val) ==
    [base |-> [base EXCEPT ![var] = val], modified |-> [base EXCEPT ![var] = val]]

\* modified_inputs = base_inputs.copy(); modified_inputs[var] = val, lines 132-133:
\* the two dicts afterwards
DictCopySet(base, var, val) ==
    [base |-> base, modified |-> [base EXCEPT ![var] = val]]

\* pct_change_in_value, line 137
PctChangeInValue(new_value, base) == FDiv(FSub(new_value, base), base)

\* the row appended to var_results, lines 139-143
SensRow(p, new_value, base) ==
    [change_in_input  |-> FormatPct(p.v),
     enterprise_value |-> new_value,
     value_change     |-> FormatPct(PctChangeInValue(new_value, base))]

SensInputs ==
    [revenue_growth_rates : {<<Zero, Half>>},
     ebit_margins         : {<<>>, <<Half>>, <<Quarter, Half>>},
     tax_rate             : {Half},
     nwc_percent          : {Zero, Half},
     capex_percent        : {Quarter},
     discount_rate        : {Half, One},
     terminal_growth_rate : {Half},
     initial_revenue      : {R(8, 1)},
     years                : {PyInt(2)}]

SeqsUpTo(S, lo, hi) == UNION {[1..k -> S] : k \in lo..hi}

\* the variables to analyse: any one field, or up to MaxVars of three of them
VariableLists ==
    {<<f>> : f \in Fields}
        \cup SeqsUpTo({"ebit_margins", "discount_rate", "years"}, 2, MaxVars)

InitSens ==
    /\ pc = "sa_call"
    /\ base_inputs \in SensInputs
    /\ given_inputs = base_inputs
    /\ valuation = None
    /\ variables \in VariableLists
    /\ ranges \in SeqsUpTo(Perts, 0, MaxRanges)
    /\ vi = 0
    /\ ri = 0
    /\ base_value = None
    /\ base_var_value = None
    /\ modified_inputs = None
    /\ var_results = <<>>
    /\ results = <<>>
    /\ query = None
    /\ gi = 0
    /\ closest_growth = [isNone |-> TRUE, v |-> Zero]
    /\ min_difference = PInf
    /\ implied = None
    /\ ret = "top"

\* lines 116-117: results = {}, base_value = calculate_dcf(base_inputs)
SensitivityBegin ==
    /\ pc = "sa_call"
    /\ valuation' = calculate_dcf(base_inputs)
    /\ IF valuation'.status = "ok"
       THEN /\ base_value' = valuation'.enterprise_value
            /\ vi' = 1
            /\ pc' = "sa_var"
       ELSE /\ pc' = "raised"
            /\ UNCHANGED <<base_value, vi>>
    /\ UNCHANGED <<base_inputs, given_inputs, variables, ranges, ri,
                   base_var_value, modified_inputs, var_results, results,
                   query, gi, closest_growth, min_difference, implied, ret>>

\* lines 119-121: the next variable, its base value read once
SensitivityVar ==
    /\ pc = "sa_var"
    /\ vi <= Len(variables)
    /\ var_results' = <<>>
    /\ base_var_value' = base_inputs[variables[vi]]
    /\ ri' = 1
    /\ pc' = "sa_pct"
    /\ UNCHANGED <<base_inputs, given_inputs, valuation, variables, ranges, vi,
                   base_value, modified_inputs, results, query, gi,
                   closest_growth, min_difference, implied, ret>>

\* lines 123-143: one perturbation
SensitivityPct ==
    /\ pc = "sa_pct"
    /\ ri <= Len(ranges)
    /\ LET var == variables[vi]
           p == ranges[ri]
           dicts == DictCopySet(base_inputs, var, ModifiedValue(var, base_var_value, p))
       IN  /\ base_inputs' = dicts.base
           /\ modified_inputs' = dicts.modified
           /\ valuation' = calculate_dcf(dicts.modified)
           /\ IF valuation'.status = "ok"
              THEN /\ var_results' =
                        Append(var_results,
                               SensRow(p, valuation'.enterprise_value, base_value))
                   /\ ri' = ri + 1
                   /\ pc' = "sa_pct"
              ELSE /\ pc' = "raised"
                   /\ UNCHANGED <<var_results, ri>>
    /\ UNCHANGED <<given_inputs, variables, ranges, vi, base_value,
                   base_var_value, results, query, gi, closest_growth,
                   min_difference, implied, ret>>

\* line 145: results[var] = pd.DataFrame(var_results)
SensitivityVarDone ==
    /\ pc = "sa_pct"
    /\ ri > Len(ranges)
    /\ results' = [f \in DOMAIN results \cup {variables[vi]} |->
                      IF f = variables[vi] THEN var_results ELSE results[f]]
    /\ vi' = vi + 1
    /\ pc' = "sa_var"
    /\ UNCHANGED <<base_inputs, given_inputs, valuation, variables, ranges, ri,
                   base_value, base_var_value, modified_inputs, var_results,
                   query, gi, closest_growth, min_difference, implied, ret>>

\* line 147: return results
SensitivityReturn ==
    /\ pc = "sa_var"
    /\ vi > Len(variables)
    /\ pc' = "returned"
    /\ UNCHANGED <<base_inputs, given_inputs, valuation, variables, ranges, vi,
                   ri, base_value, base_var_value, modified_inputs, var_results,
                   results, query, gi, closest_growth, min_difference, implied, ret>>

NextSens ==
    \/ SensitivityBegin
    \/ SensitivityVar
    \/ SensitivityPct
    \/ SensitivityVarDone
    \/ SensitivityReturn

SpecSens == InitSens /\ [][NextSens]_vars

----------------------------------------------------------------------------
(* Claims about sensitivity_analysis, under SpecSens *)

\* an input set the valuation accepts: valid, with discount_rate > terminal_growth_rate
ValidInputs(inp) ==
    /\ ~InvalidInput(inp)
    /\ FLt(inp.terminal_growth_rate, inp.discount_rate)

\* the perturbation whose recomputation was last made for the current
\* variable: 0 if none
LastPct ==
    IF pc = "sa_pct" THEN ri - 1
    ELSE IF pc = "raised" /\ vi >= 1 THEN ri
    ELSE 0

Scaled(f, x, p) ==
    IF f \in ListFields THEN [i \in 1..Len(x) |-> FMul(FAdd(p.v, One), x[i])]
    ELSE IF f = "years" THEN [v |-> FMul(FAdd(p.v, One), x.v), int |-> x.int /\ p.int]
    ELSE FMul(FAdd(p.v, One), x)

\* C8: the dict passed to calculate_dcf for a perturbation p equals the
\* caller's original dict except in the analysed field, which holds the
\* original value times (1+p), element by element for a list; and the
\* caller's dict is never changed.
C8_OnlyVariablePerturbed ==
    /\ base_inputs = given_inputs
    /\ LastPct >= 1 =>
          \A f \in Fields :
              modified_inputs[f] =
                  IF f = variables[vi]
                  THEN Scaled(f, given_inputs[f], ranges[LastPct])
                  ELSE given_inputs[f]

\* C8's case: the second non-zero perturbation of the second variable, a list
\* field analysed twice
C8_Witness ==
    /\ pc = "sa_pct"
    /\ vi = 2
    /\ ri = 3
    /\ variables[1] = "ebit_margins"
    /\ variables[2] = "ebit_margins"
    /\ ranges[1].v # Zero
    /\ ranges[2].v # Zero
    /\ modified_inputs.ebit_margins # given_inputs.ebit_margins

----------------------------------------------------------------------------
(* reverse_dcf *)

\* market_cap + net_debt, lines 200-201
TargetEv(q) == FAdd(FMul(q.current_price, q.shares_outstanding), q.net_debt)

\* the least integer >= x, for a finite x
Ceil(x) == -((-x.n) \div x.d)

\* len(np.arange(min_growth, max_growth, step)) for step > 0, line 204
GridLen(q) ==
    LET r == q.iteration_range
        len == Ceil(FDiv(FSub(r.max_growth, r.min_growth), r.step))
    IN  IF len > 0 THEN len ELSE 0

\* growth_rates[k] = min_growth + k*step
Candidate(q, k) ==
    FAdd(q.iteration_range.min_growth, FMul(R(k, 1), q.iteration_range.step))

\* [growth] * years, line 210: an empty list for years <= 0
GrowthArray(growth, years) == [i \in 1..years.v.n |-> growth]

\* the inputs built for one candidate, lines 211-221
CandidateInputs(q, growth) ==
    [revenue_growth_rates |-> GrowthArray(growth, q.years),
     ebit_margins         |-> q.ebit_margins,
     tax_rate             |-> q.tax_rate,
     nwc_percent          |-> q.nwc_percent,
     capex_percent        |-> q.capex_percent,
     discount_rate        |-> q.discount_rate,
     terminal_growth_rate |-> q.terminal_growth_rate,
     initial_revenue      |-> q.initial_revenue,
     years                |-> q.years]

\* the state of the scan before its first candidate, lines 206-207
ScanStart ==
    [status |-> "ok", closest_growth |-> [isNone |-> TRUE, v |-> Zero],
     min_difference |-> PInf]

\* the update that compares the signed difference
ScanStepNoAbs(q, acc, growth) ==
    LET val == calculate_dcf(CandidateInputs(q, growth))
        difference == FSub(val.enterprise_value, TargetEv(q))
    IN  IF ~q.years.int THEN [acc EXCEPT !.status = "TypeError"]
        ELSE IF val.status # "ok" THEN [acc EXCEPT !.status = val.status]
        ELSE IF FLt(difference, acc.min_difference)
        THEN [acc EXCEPT !.min_difference = difference,
                         !.closest_growth = [isNone |-> FALSE, v |-> growth]]
        ELSE acc

\* the update that also takes a candidate as close as the closest so far
ScanStepLastTie(q, acc, growth) ==
    LET val == calculate_dcf(CandidateInputs(q, growth))
        difference == FAbs(FSub(val.enterprise_value, TargetEv(q)))
    IN  IF ~q.years.int THEN [acc EXCEPT !.status = "TypeError"]
        ELSE IF val.status # "ok" THEN [acc EXCEPT !.status = val.status]
        ELSE IF FLe(difference, acc.min_difference)
        THEN [acc EXCEPT !.min_difference = difference,
                         !.closest_growth = [isNone |-> FALSE, v |-> growth]]
        ELSE acc

\* one iteration of the loop, lines 209-228: [growth] * years raises
\* TypeError for a float years, calculate_dcf may raise, and a strictly
\* smaller difference replaces the closest candidate
ScanStep(q, acc, growth) ==
    LET val == calculate_dcf(CandidateInputs(q, growth))
        difference == FAbs(FSub(val.enterprise_value, TargetEv(q)))
    IN  IF ~q.years.int THEN [acc EXCEPT !.status = "TypeError"]
        ELSE IF val.status # "ok" THEN [acc EXCEPT !.status = val.status]
        ELSE IF FLt(difference, acc.min_difference)
        THEN [acc EXCEPT !.min_difference = difference,
                         !.closest_growth = [isNone |-> FALSE, v |-> growth]]
        ELSE acc

\* flat growth rates whose enterprise value a caller may take as the target
KnownGrowths == {Zero, Quarter, R(3, 8), R(3, 4)}

\* iteration_range: up to MaxGrid candidates a quarter apart, or half as many
\* a half apart; empty when max_growth <= min_growth
IterationRanges ==
    [min_growth : {Zero, Quarter},
     max_growth : {R(k, 4) : k \in 0..MaxGrid},
     step       : {Quarter, Half}]

\* the arguments of reverse_dcf but the price
RevQueries ==
    [current_price        : {Zero},
     shares_outstanding   : {R(2, 1)},
     net_debt             : {Zero, R(2, 1)},
     initial_revenue      : {R(8, 1)},
     ebit_margins         : {<<Half>>},
     tax_rate             : {Half},
     nwc_percent          : {Zero, Quarter, One},
     capex_percent        : {Zero, Quarter},
     discount_rate        : {Half, One},
     terminal_growth_rate : {Half},
     years                : {PyInt(1), PyInt(2)},
     iteration_range      : IterationRanges]

\* the price at which the target is the enterprise value of flat growth g0
\* (0 when that value is not finite)
PriceOf(q, g0) ==
    LET ev == EnterpriseValue(CandidateInputs(q, g0))
    IN  IF IsFinite(ev) THEN FDiv(FSub(ev, q.net_debt), q.shares_outstanding)
        ELSE Zero

InitRev ==
    /\ pc = "rd_call"
    /\ \E q \in RevQueries :
          \/ \E price \in {Zero, R(3, 1)} : query = [q EXCEPT !.current_price = price]
          \/ \E g0 \in KnownGrowths : query = [q EXCEPT !.current_price = PriceOf(q, g0)]
    /\ base_inputs = None
    /\ given_inputs = None
    /\ valuation = None
    /\ variables = <<>>
    /\ ranges = <<>>
    /\ vi = 0
    /\ ri = 0
    /\ base_value = None
    /\ base_var_value = None
    /\ modified_inputs = None
    /\ var_results = <<>>
    /\ results = <<>>
    /\ gi = 0
    /\ closest_growth = [isNone |-> TRUE, v |-> Zero]
    /\ min_difference = PInf
    /\ implied = None
    /\ ret = "top"

\* lines 200-207
ReverseBegin ==
    /\ pc = "rd_call"
    /\ closest_growth' = ScanStart.closest_growth
    /\ min_difference' = ScanStart.min_difference
    /\ gi' = 0
    /\ pc' = "rd_scan"
    /\ UNCHANGED <<base_inputs, given_inputs, valuation, variables, ranges, vi,
                   ri, base_value, base_var_value, modified_inputs, var_results,
                   results, query, implied, ret>>

\* lines 209-228: the next candidate
ReverseScan ==
    /\ pc = "rd_scan"
    /\ gi < GridLen(query)
    /\ LET acc == ScanStep(query,
                           [status |-> "ok", closest_growth |-> closest_growth,
                            min_difference |-> min_difference],
                           Candidate(query, gi))
       IN  IF acc.status = "ok"
           THEN /\ closest_growth' = acc.closest_growth
                /\ min_difference' = acc.min_difference
                /\ gi' = gi + 1
                /\ UNCHANGED <<pc, implied>>
           ELSE /\ implied' = Raised(acc.status)
                /\ pc' = "raised"
                /\ UNCHANGED <<closest_growth, min_difference, gi>>
    /\ UNCHANGED <<base_inputs, given_inputs, valuation, variables, ranges, vi,
                   ri, base_value, base_var_value, modified_inputs, var_results,
                   results, query, ret>>

\* line 230: return closest_growth
ReverseReturn ==
    /\ pc = "rd_scan"
    /\ gi >= GridLen(query)
    /\ implied' = [status |-> "ok", closest_growth |-> closest_growth]
    /\ pc' = IF ret = "top" THEN "returned" ELSE ret
    /\ UNCHANGED <<base_inputs, given_inputs, valuation, variables, ranges, vi,
                   ri, base_value, base_var_value, modified_inputs, var_results,
                   results, query, gi, closest_growth, min_difference, ret>>

NextRev ==
    \/ ReverseBegin
    \/ ReverseScan
    \/ ReverseReturn

SpecRev == InitRev /\ [][NextRev]_vars

----------------------------------------------------------------------------
(* Claims about reverse_dcf, under SpecRev *)

\* the enterprise value of flat growth g with the query's other fields
EvAt(q, g) == EnterpriseValue(CandidateInputs(q, g))

\* |EV(g) - target_ev|
DiffAt(q, g) == FAbs(FSub(EvAt(q, g), TargetEv(q)))

GridIndex(q) == 0..(GridLen(q) - 1)

\* the returned value is candidate k, no candidate is closer to the target
\* and every earlier candidate is farther from it
ClosestFirst(q, k) ==
    /\ implied.closest_growth = [isNone |-> FALSE, v |-> Candidate(q, k)]
    /\ \A j \in GridIndex(q) : FLe(DiffAt(q, Candidate(q, k)), DiffAt(q, Candidate(q, j)))
    /\ \A j \in 0..(k - 1) : FLt(DiffAt(q, Candidate(q, k)), DiffAt(q, Candidate(q, j)))

\* C3 as claimed: what reverse_dcf returns is a candidate of the grid with the
\* minimum |EV(g) - target_ev|, the first such candidate in scan order.
C3_ReturnsClosestCandidate ==
    pc = "returned" => \E k \in GridIndex(query) : ClosestFirst(query, k)

\* C3 where every candidate has a finite enterprise value: the same, for a
\* grid that is not empty.
C3_ClosestCandidateFiniteEv ==
    (/\ pc = "returned"
     /\ GridLen(query) > 0
     /\ \A j \in GridIndex(query) : IsFinite(EvAt(query, Candidate(query, j))))
        => \E k \in GridIndex(query) : ClosestFirst(query, k)

\* C3's case: a returned candidate that is not the first of the grid, and a
\* later candidate exactly as close
C3_Witness ==
    /\ pc = "returned"
    /\ ~implied.closest_growth.isNone
    /\ implied.closest_growth.v # Candidate(query, 0)
    /\ \E j \in GridIndex(query) :
          /\ FLt(implied.closest_growth.v, Candidate(query, j))
          /\ DiffAt(query, Candidate(query, j)) = DiffAt(query, implied.closest_growth.v)
          /\ IsFinite(DiffAt(query, Candidate(query, j)))

\* C4 as claimed: with an empty candidate grid reverse_dcf raises and returns
\* nothing.
C4_EmptyGridRaises ==
    (pc \in {"returned", "raised"} /\ GridLen(query) = 0) => pc = "raised"

\* g0 lies in the search range and the target is its enterprise value
TargetIsEvOf(q, g0) ==
    /\ FLe(q.iteration_range.min_growth, g0)
    /\ FLt(g0, q.iteration_range.max_growth)
    /\ FLt(q.terminal_growth_rate, q.discount_rate)
    /\ TargetEv(q) = EvAt(q, g0)

\* the growth rate returned is within step of g0
WithinStep(q, g0) ==
    /\ pc = "returned"
    /\ ~implied.closest_growth.isNone
    /\ FLe(FAbs(FSub(implied.closest_growth.v, g0)), q.iteration_range.step)

\* the enterprise value is strictly increasing, or strictly decreasing, in
\* the flat growth rate over the candidates and g0
StrictlyMonotone(q, g0) ==
    LET pts == {Candidate(q, k) : k \in GridIndex(q)} \cup {g0}
        ev == [g \in pts |-> EvAt(q, g)]
    IN  \/ \A a, b \in pts : FLt(a, b) => FLt(ev[a], ev[b])
        \/ \A a, b \in pts : FLt(a, b) => FLt(ev[b], ev[a])

\* C9 as claimed: when the target is the enterprise value of a flat growth g0
\* of the search range, the growth rate returned is within step of g0.
C9_RecoversKnownGrowth ==
    pc \in {"returned", "raised"} =>
        \A g0 \in KnownGrowths : TargetIsEvOf(query, g0) => WithinStep(query, g0)

\* C9 amended: the same, when the enterprise value is strictly monotonic in
\* the flat growth rate over the candidates and g0.
C9_RecoversKnownGrowthMonotone ==
    pc \in {"returned", "raised"} =>
        \A g0 \in KnownGrowths :
            (TargetIsEvOf(query, g0) /\ StrictlyMonotone(query, g0))
                => WithinStep(query, g0)

\* C9's case: the target is the value of a growth rate between two
\* candidates, neither the first, and the one returned is next to it
C9_Witness ==
    /\ pc = "returned"
    /\ GridLen(query) >= 3
    /\ TargetIsEvOf(query, R(3, 8))
    /\ StrictlyMonotone(query, R(3, 8))
    /\ query.net_debt # Zero
    /\ query.years.v.n = 2
    /\ ~implied.closest_growth.isNone
    /\ implied.closest_growth.v \in {Quarter, Half}

----------------------------------------------------------------------------
(* reverse_dcf_sensitivity *)

RevFields ==
    {"current_price", "shares_outstanding", "net_debt", "initial_revenue",
     "ebit_margins", "tax_rate", "nwc_percent", "capex_percent",
     "discount_rate", "terminal_growth_rate", "years"}

RevPerts == {PyFloat(R(-1, 2)), [v |-> Zero, int |-> TRUE], [v |-> One, int |-> TRUE]}

\* seq * k for a Python list and an int k: k copies, none for k <= 0
ListTimes(seq, k) ==
    IF k <= 0 THEN <<>>
    ELSE [i \in 1..(Len(seq) * k) |-> seq[((i - 1) % Len(seq)) + 1]]

\* base_var_value * (1 + pct_change), line 254: [status, value].  A list
\* times a float raises TypeError, a list times an int repeats the list.
ModifiedValueRev(var, bvv, p) ==
    IF var \in ListFields
    THEN IF p.int
         THEN [status |-> "ok", value |-> ListTimes(bvv, FAdd(One, p.v).n)]
         ELSE [status |-> "TypeError", value |-> bvv]
    ELSE IF var = "years"
    THEN [status |-> "ok",
          value  |-> [v |-> FMul(bvv.v, FAdd(One, p.v)), int |-> bvv.int /\ p.int]]
    ELSE [status |-> "ok", value |-> FMul(bvv, FAdd(One, p.v))]

\* the row appended to var_results, lines 258-262: [status, row].  Formatting
\* None, or subtracting with None, raises TypeError.
RevSensRow(p, implied_growth, base_growth) ==
    IF implied_growth.isNone \/ base_growth.isNone
    THEN [status |-> "TypeError"]
    ELSE [status |-> "ok",
          row    |-> [change_in_input |-> FormatPct(p.v),
                      implied_growth  |-> FormatPct(implied_growth.v),
                      growth_delta    |-> FormatPct(FSub(implied_growth.v, base_growth.v))]]

RevSensInputs ==
    [current_price        : {R(3, 1)},
     shares_outstanding   : {R(2, 1)},
     net_debt             : {R(2, 1)},
     initial_revenue      : {R(8, 1)},
     ebit_margins         : {<<Quarter, Half>>},
     tax_rate             : {Half},
     nwc_percent          : {Zero, One},
     capex_percent        : {Zero},
     discount_rate        : {One},
     terminal_growth_rate : {Half},
     years                : {PyInt(2)},
     iteration_range      : [min_growth : {Zero}, max_growth : {Zero, R(3, 4)},
                             step : {Quarter}]]

RevVariableLists ==
    {<<f>> : f \in RevFields}
        \cup SeqsUpTo({"ebit_margins", "discount_rate", "years"}, 2, MaxVars)

InitRevSens ==
    /\ pc = "rs_call"
    /\ base_inputs \in RevSensInputs
    /\ given_inputs = base_inputs
    /\ valuation = None
    /\ variables \in RevVariableLists
    /\ ranges \in SeqsUpTo(RevPerts, 0, MaxRanges)
    /\ vi = 0
    /\ ri = 0
    /\ base_value = None
    /\ base_var_value = None
    /\ modified_inputs = None
    /\ var_results = <<>>
    /\ results = <<>>
    /\ query = None
    /\ gi = 0
    /\ closest_growth = [isNone |-> TRUE, v |-> Zero]
    /\ min_difference = PInf
    /\ implied = None
    /\ ret = "top"

\* lines 245-246: results = {}, and the call reverse_dcf(base_inputs)
RevSensBegin ==
    /\ pc = "rs_call"
    /\ query' = base_inputs
    /\ ret' = "rs_base"
    /\ pc' = "rd_call"
    /\ UNCHANGED <<base_inputs, given_inputs, valuation, variables, ranges, vi,
                   ri, base_value, base_var_value, modified_inputs, var_results,
                   results, gi, closest_growth, min_difference, implied>>

\* line 246: base_growth = what reverse_dcf returned
RevSensBase ==
    /\ pc = "rs_base"
    /\ base_value' = implied.closest_growth
    /\ vi' = 1
    /\ pc' = "rs_var"
    /\ UNCHANGED <<base_inputs, given_inputs, valuation, variables, ranges, ri,
                   base_var_value, modified_inputs, var_results, results,
                   query, gi, closest_growth, min_difference, implied, ret>>

\* lines 248-250
RevSensVar ==
    /\ pc = "rs_var"
    /\ vi <= Len(variables)
    /\ var_results' = <<>>
    /\ base_var_value' = base_inputs[variables[vi]]
    /\ ri' = 1
    /\ pc' = "rs_pct"
    /\ UNCHANGED <<base_inputs, given_inputs, valuation, variables, ranges, vi,
                   base_value, modified_inputs, results, query, gi,
                   closest_growth, min_difference, implied, ret>>

\* lines 252-256: one perturbation, up to the call reverse_dcf(modified_inputs)
RevSensPct ==
    /\ pc = "rs_pct"
    /\ ri <= Len(ranges)
    /\ LET var == variables[vi]
           mv == ModifiedValueRev(var, base_var_value, ranges[ri])
       IN  IF mv.status = "ok"
           THEN /\ modified_inputs' = [base_inputs EXCEPT ![var] = mv.value]
                /\ query' = modified_inputs'
                /\ ret' = "rs_row"
                /\ pc' = "rd_call"
                /\ UNCHANGED implied
           ELSE /\ modified_inputs' = base_inputs
                /\ implied' = Raised(mv.status)
                /\ pc' = "raised"
                /\ UNCHANGED <<query, ret>>
    /\ UNCHANGED <<base_inputs, given_inputs, valuation, variables, ranges, vi,
                   ri, base_value, base_var_value, var_results, results, gi,
                   closest_growth, min_difference>>

\* lines 256-262: implied_growth = what reverse_dcf returned, and its row
RevSensRowAppend ==
    /\ pc = "rs_row"
    /\ LET rr == RevSensRow(ranges[ri], implied.closest_growth, base_value)
       IN  IF rr.status = "ok"
           THEN /\ var_results' = Append(var_results, rr.row)
                /\ ri' = ri + 1
                /\ pc' = "rs_pct"
                /\ UNCHANGED implied
           ELSE /\ implied' = Raised(rr.status)
                /\ pc' = "raised"
                /\ UNCHANGED <<var_results, ri>>
    /\ UNCHANGED <<base_inputs, given_inputs, valuation, variables, ranges, vi,
                   base_value, base_var_value, modified_inputs, results, query,
                   gi, closest_growth, min_difference, ret>>

\* line 264: results[var] = pd.DataFrame(var_results)
RevSensVarDone ==
    /\ pc = "rs_pct"
    /\ ri > Len(ranges)
    /\ results' = [f \in DOMAIN results \cup {variables[vi]} |->
                      IF f = variables[vi] THEN var_results ELSE results[f]]
    /\ vi' = vi + 1
    /\ pc' = "rs_var"
    /\ UNCHANGED <<base_inputs, given_inputs, valuation, variables, ranges, ri,
                   base_value, base_var_value, modified_inputs, var_results,
                   query, gi, closest_growth, min_difference, implied, ret>>

\* line 266: return results
RevSensReturn ==
    /\ pc = "rs_var"
    /\ vi > Len(variables)
    /\ pc' = "returned"
    /\ UNCHANGED <<base_inputs, given_inputs, valuation, variables, ranges, vi,
                   ri, base_value, base_var_value, modified_inputs, var_results,
                   results, query, gi, closest_growth, min_difference, implied, ret>>

NextRevSens ==
    \/ RevSensBegin
    \/ ReverseBegin
    \/ ReverseScan
    \/ ReverseReturn
    \/ RevSensBase
    \/ RevSensVar
    \/ RevSensPct
    \/ RevSensRowAppend
    \/ RevSensVarDone
    \/ RevSensReturn

SpecRevSens == InitRevSens /\ [][NextRevSens]_vars

----------------------------------------------------------------------------
(* Claims about reverse_dcf_sensitivity, under SpecRevSens *)

\* the perturbation of the current variable whose modified query was last
\* built: 0 if none
LastRevPct ==
    IF pc = "rs_pct" THEN ri - 1
    ELSE IF vi >= 1 /\ pc \in {"raised", "rd_call", "rd_scan", "rs_row"} THEN ri
    ELSE 0

\* C10 as claimed: for every perturbation p processed, the analysed field of
\* the query passed to reverse_dcf is the base value times (1+p), element by
\* element with the length unchanged for a list field, and the entry
\* reported carries growth_delta = implied_growth - base_growth.
C10_PerturbsLikeSensitivity ==
    LastRevPct >= 1 =>
        /\ modified_inputs[variables[vi]] =
              Scaled(variables[vi], given_inputs[variables[vi]], ranges[LastRevPct])
        /\ pc = "rs_pct" =>
              /\ Len(var_results) = LastRevPct
              /\ var_results[LastRevPct].growth_delta =
                    FormatPct(FSub(implied.closest_growth.v, base_value.v))

\* C10 for the scalar fields: the same, where the analysed field is not a list.
C10_ScalarFieldsPerturbed ==
    (LastRevPct >= 1 /\ variables[vi] \notin ListFields) =>
        /\ modified_inputs[variables[vi]] =
              Scaled(variables[vi], given_inputs[variables[vi]], ranges[LastRevPct])
        /\ pc = "rs_pct" =>
              /\ Len(var_results) = LastRevPct
              /\ var_results[LastRevPct].growth_delta =
                    FormatPct(FSub(implied.closest_growth.v, base_value.v))

\* C10's case: a list field perturbed by a float
C10_Witness ==
    /\ LastRevPct >= 1
    /\ variables[vi] = "ebit_margins"
    /\ ~ranges[LastRevPct].int
    /\ pc = "raised"
    /\ implied.status = "TypeError"

====
